---- MODULE Spec2Model ----
(***************************************************************************)
(* A model of cyylog.CyLog.CyyLog: a JSON-backed result store with a       *)
(* `dones` category and a generator that skips the items already done.     *)
(*                                                                         *)
(* Python values are tagged pairs <<tag, payload>>:                        *)
(*   <<"dict", pairs>>  pairs a sequence of <<key, value>> in insertion    *)
(*                      order, keys are strings                            *)
(*   <<"list", elems>>  <<"str", s>>  <<"int", n>>  <<"bool", b>>          *)
(*   <<"none", 0>>                                                         *)
(* JSON documents (the content of a file) are tagged pairs of their own:   *)
(*   <<"object", pairs>> <<"array", elems>> <<"string", s>>                *)
(*   <<"number", n>> <<"true", 0>> <<"false", 0>> <<"null", 0>>            *)
(* json.dump / json.load convert between the two.                          *)
(***************************************************************************)
EXTENDS Integers, Sequences, FiniteSets, TLC

\* ------------------------------------------------------------ bounds

\* The most entries the in-memory store of an instance may hold.
MaxEntries == 2
\* The longest input list.
MaxLen == 2
\* The wall clock runs from 0 to MaxClock.
MaxClock == 1

\* ------------------------------------------------------- Python values

None == <<"none", 0>>
PyStr(s) == <<"str", s>>
PyInt(n) == <<"int", n>>
PyBool(b) == <<"bool", b>>
PyList(elems) == <<"list", elems>>
PyDict(pairs) == <<"dict", pairs>>

Tag(v) == v[1]
Payload(v) == v[2]

\* Truthy as `item is not None` would have it.
truthy_not_none(v) == Tag(v) # "none"

\* bool(v): the truth value Python gives a value (`if not item`).
Truthy(v) ==
  CASE Tag(v) = "none" -> FALSE
    [] Tag(v) = "bool" -> Payload(v)
    [] Tag(v) = "int"  -> Payload(v) # 0
    [] Tag(v) = "str"  -> Payload(v) # ""
    [] Tag(v) = "list" -> Len(Payload(v)) > 0
    [] Tag(v) = "dict" -> Len(Payload(v)) > 0

\* The keys of a dict, in insertion order.
DictKeys(d) == [n \in 1..Len(Payload(d)) |-> Payload(d)[n][1]]
KeySet(d) == {Payload(d)[n][1] : n \in 1..Len(Payload(d))}

\* d[k] for a dict d that has the key k.
DictGet(d, k) ==
  LET n == CHOOSE m \in 1..Len(Payload(d)) : Payload(d)[m][1] = k
  IN  Payload(d)[n][2]

\* d.get(k): None when the key is absent.
DictGetOrNone(d, k) == IF k \in KeySet(d) THEN DictGet(d, k) ELSE None

\* d[k] = v: replaces the value in place, or inserts the key at the end.
DictSet(d, k, v) ==
  IF k \in KeySet(d)
  THEN PyDict([n \in 1..Len(Payload(d)) |->
                 IF Payload(d)[n][1] = k THEN <<k, v>> ELSE Payload(d)[n]])
  ELSE PyDict(Append(Payload(d), <<k, v>>))

\* ------------------------------------------------ json.dumps / md5

\* The keys items may use, in the order Python's string comparison gives.
KeyOrder == <<"a", "b", "k">>
KeyRank(k) == CHOOSE n \in 1..Len(KeyOrder) : KeyOrder[n] = k

RECURSIVE InsertPair(_, _)
InsertPair(p, sorted) ==
  IF sorted = <<>> THEN <<p>>
  ELSE IF KeyRank(p[1]) < KeyRank(Head(sorted)[1])
       THEN <<p>> \o sorted
       ELSE <<Head(sorted)>> \o InsertPair(p, Tail(sorted))

\* The items of a dict as json.dumps(..., sort_keys=False) takes them.
insertion_order(pairs) == pairs

\* sorted(d.items()) as json.dumps(..., sort_keys=True) does it.
RECURSIVE SortPairs(_)
SortPairs(pairs) ==
  IF pairs = <<>> THEN <<>>
  ELSE InsertPair(Head(pairs), SortPairs(Tail(pairs)))

RECURSIVE JoinStr(_)
JoinStr(strs) ==
  IF strs = <<>> THEN ""
  ELSE IF Len(strs) = 1 THEN strs[1]
  ELSE strs[1] \o ", " \o JoinStr(Tail(strs))

\* json.dumps(item, sort_keys=True, default=str) on the values modelled.
RECURSIVE dumps_sorted(_)
dumps_sorted(v) ==
  CASE Tag(v) = "none" -> "null"
    [] Tag(v) = "bool" -> IF Payload(v) THEN "true" ELSE "false"
    [] Tag(v) = "int"  -> ToString(Payload(v))
    [] Tag(v) = "str"  -> "\"" \o Payload(v) \o "\""
    [] Tag(v) = "list" ->
         "[" \o JoinStr([n \in 1..Len(Payload(v)) |-> dumps_sorted(Payload(v)[n])]) \o "]"
    [] Tag(v) = "dict" ->
         LET ps == SortPairs(Payload(v))
         IN  "{" \o JoinStr([n \in 1..Len(ps) |->
                    "\"" \o ps[n][1] \o "\": " \o dumps_sorted(ps[n][2])]) \o "}"

\* hashlib.md5(s).hexdigest(), taken to be free of collisions.
md5_hexdigest(s) == "md5:" \o s

get_item_id(item) == md5_hexdigest(dumps_sorted(item))

\* ------------------------------------------------ json.dump / json.load

\* What json.dump writes for a Python value: the JSON document.
RECURSIVE json_dump(_)
json_dump(v) ==
  CASE Tag(v) = "none" -> <<"null", 0>>
    [] Tag(v) = "bool" -> IF Payload(v) THEN <<"true", 0>> ELSE <<"false", 0>>
    [] Tag(v) = "int"  -> <<"number", Payload(v)>>
    [] Tag(v) = "str"  -> <<"string", Payload(v)>>
    [] Tag(v) = "list" ->
         <<"array", [n \in 1..Len(Payload(v)) |-> json_dump(Payload(v)[n])]>>
    [] Tag(v) = "dict" ->
         <<"object", [n \in 1..Len(Payload(v)) |->
                        <<Payload(v)[n][1], json_dump(Payload(v)[n][2])>>]>>

\* What json.load returns for a JSON document.
RECURSIVE json_load(_)
json_load(j) ==
  CASE j[1] = "null"   -> None
    [] j[1] = "true"   -> PyBool(TRUE)
    [] j[1] = "false"  -> PyBool(FALSE)
    [] j[1] = "number" -> PyInt(j[2])
    [] j[1] = "string" -> PyStr(j[2])
    [] j[1] = "array"  -> PyList([n \in 1..Len(j[2]) |-> json_load(j[2][n])])
    [] j[1] = "object" ->
         PyDict([n \in 1..Len(j[2]) |-> <<j[2][n][1], json_load(j[2][n][2])>>])

\* A file: absent, present with text that is not JSON, present with bytes
\* that are not UTF-8, or holding a document.
Absent == [kind |-> "absent", doc |-> <<"null", 0>>]
Corrupt == [kind |-> "corrupt", doc |-> <<"null", 0>>]
Undecodable == [kind |-> "undecodable", doc |-> <<"null", 0>>]
JsonFile(j) == [kind |-> "json", doc |-> j]

\* The store a new instance starts from when the file gives none.
EmptyStore == PyDict(<< <<"dones", PyList(<<>>)>> >>)

\* _load_output_data: FileNotFoundError and JSONDecodeError give the empty
\* store, any document that parses is returned as it is.
load_output_data(f) ==
  IF f.kind = "json" THEN json_load(f.doc) ELSE EmptyStore

\* json.load(f) reads the file opened with encoding='utf-8': bytes that do
\* not decode raise UnicodeDecodeError, which the except clause of
\* _load_output_data does not name.
load_raises(f) == f.kind = "undecodable"

\* The strings with a character outside ASCII, written as json.dumps with
\* ensure_ascii=True writes them.
NonAscii == {"\\u00e9"}

\* The value holds a string with a character outside ASCII, which
\* json.dump(..., ensure_ascii=False) writes as more than one byte.
RECURSIVE HasNonAscii(_)
HasNonAscii(v) ==
  CASE Tag(v) = "str"  -> Payload(v) \in NonAscii
    [] Tag(v) = "list" ->
         \E n \in 1..Len(Payload(v)) : HasNonAscii(Payload(v)[n])
    [] Tag(v) = "dict" ->
         \E n \in 1..Len(Payload(v)) : HasNonAscii(Payload(v)[n][2])
    [] OTHER -> FALSE

\* _save_output_data that never reaches the file.
save_nothing(store, f, w) == f

\* _save_output_data that opens the file with mode 'a': a second document
\* after the first one makes text json.load cannot parse.
save_append(store, f, w) ==
  IF w = "ok" /\ f.kind = "absent" THEN JsonFile(json_dump(store))
  ELSE IF w = "openfail" THEN f
  ELSE Corrupt

\* _save_output_data that leaves alone a file that holds a document.
save_if_new(store, f, w) ==
  IF f.kind = "json" THEN f ELSE JsonFile(json_dump(store))

\* _save_output_data: open(path, 'w') and json.dump. w is what the file
\* system does: "ok", "openfail" (open raises, the file is untouched),
\* "partial" (the file is truncated by open and the write then raises) or
\* "cut" (as "partial", the bytes written ending inside a character).
save_output_data(store, f, w) ==
  CASE w = "ok"       -> JsonFile(json_dump(store))
    [] w = "openfail" -> f
    [] w = "partial"  -> Corrupt
    [] w = "cut"      -> IF HasNonAscii(store) THEN Undecodable ELSE Corrupt

\* _save_output_data is called outside any try: what it raises leaves
\* endpoint and done, and the log line after the call is not reached.
call_outcome(w) == IF w = "ok" THEN "none" ELSE "raised"

\* A call that takes the entry back when the write fails.
rolled_back(old, new, w) == IF w = "ok" THEN new ELSE old

\* The entry is appended before _save_output_data is called and nothing
\* takes it back: self.output_data after the call, whatever the write did.
kept(old, new, w) == new

\* ------------------------------------------------------------- entries

\* datetime.now().isoformat() at clock value t.
isoformat(t) == "T" \o ToString(t)

\* _format_output_entry
format_output_entry(item, message, t) ==
  PyDict(<< <<"timestamp", PyStr(isoformat(t))>>,
            <<"id", PyStr(get_item_id(item))>>,
            <<"item", item>> >>
         \o (IF Truthy(message) THEN << <<"message", message>> >> ELSE <<>>))

\* any(entry.get("id") == item_id for entry in entries)
any_id(entries, item_id) ==
  \E n \in 1..Len(Payload(entries)) :
     DictGetOrNone(Payload(entries)[n], "id") = PyStr(item_id)

\* `key in store` raises TypeError for a store that is no container.
IsContainer(store) == Tag(store) \in {"dict", "list"}

\* `key in store` for a dict or a list (a list holds the key as an element).
Contains(store, key) ==
  IF Tag(store) = "dict" THEN key \in KeySet(store)
  ELSE \E n \in 1..Len(Payload(store)) : Payload(store)[n] = PyStr(key)

\* store[key] evaluates (no KeyError, no TypeError).
Subscriptable(store, key) == Tag(store) = "dict" /\ key \in KeySet(store)

\* The number of entries a dict store holds over all its categories.
RECURSIVE SumLen(_)
SumLen(pairs) ==
  IF pairs = <<>> THEN 0 ELSE Len(Payload(Head(pairs)[2])) + SumLen(Tail(pairs))
EntryCount(store) == IF Tag(store) = "dict" THEN SumLen(Payload(store)) ELSE 0

\* ------------------------------------------------------------- state

\* The instances of CyyLog (processes that opened the same output_path).
Inst == {1, 2}

VARIABLES
  file,         \* the file at output_path
  input,        \* input_path and the file behind it
  clock,        \* the wall clock datetime.now() reads
  output_data,  \* output_data[i]: self.output_data of instance i
  gen,          \* gen[i]: the generator object instance i's caller holds
  last,         \* the last call: who, what, its arguments and its outcome
  run           \* history of the yields and of the items marked done

vars == <<file, input, clock, output_data, gen, last, run>>

\* keys left out of a call: the parameter's default applies.
Omitted == <<"omitted", 0>>

\* A default of "dones" for the parameter `keys`.
default_keys_dones == PyStr("dones")

\* The default of endpoint's and of check's parameter `keys`.
default_keys == PyStr("endpoint")

bind_keys(keys) == IF keys = Omitted THEN default_keys ELSE keys

\* if isinstance(keys, str): keys = [keys]; the names as a sequence.
key_list(keys) ==
  IF Tag(keys) = "str" THEN <<Payload(keys)>>
  ELSE [n \in 1..Len(Payload(keys)) |-> Payload(Payload(keys)[n])]

\* No generator object. The fields are the generator's locals; summaries
\* counts the summary lines it logged, yields the items it yielded, and
\* dones0 keeps the length of `dones` at the time its body started to run.
NoGen == [pc |-> "none", data |-> <<>>, index |-> 0, total |-> 0,
          processed |-> 0, skipped |-> 0, summaries |-> 0, yields |-> 0,
          dones0 |-> 0]

\* self.output_data of an instance whose constructor raised: every use
\* of it raises.
NoInstance == None

\* The record of a call.
Call(i, op, item, keys, ret, log, wrote) ==
  [inst |-> i, op |-> op, item |-> item, keys |-> keys, ret |-> ret,
   log |-> log, wrote |-> wrote]

NoRun == [yielded |-> {}, pending |-> None, disciplined |-> TRUE,
          dup |-> FALSE, marked |-> {}]

\* ------------------------------------------------------------ endpoint

\* The loop of endpoint with insert(0, entry) for append(entry).
RECURSIVE append_all_front(_, _, _)
append_all_front(store, ks, entry) ==
  IF ks = <<>> THEN store
  ELSE LET k  == Head(ks)
           s1 == IF ~Contains(store, k) THEN DictSet(store, k, PyList(<<>>))
                 ELSE store
           s2 == DictSet(s1, k, PyList(<<entry>> \o Payload(DictGet(s1, k))))
       IN  append_all_front(s2, Tail(ks), entry)

\* The loop of endpoint left after its first key.
append_first_only(store, ks, entry) ==
  IF ks = <<>> THEN store
  ELSE LET k  == Head(ks)
           s1 == IF ~Contains(store, k) THEN DictSet(store, k, PyList(<<>>))
                 ELSE store
       IN  DictSet(s1, k, PyList(Append(Payload(DictGet(s1, k)), entry)))

\* The loop of endpoint over keys, on a dict store.
RECURSIVE append_all(_, _, _)
append_all(store, ks, entry) ==
  IF ks = <<>> THEN store
  ELSE LET k  == Head(ks)
           s1 == IF ~Contains(store, k) THEN DictSet(store, k, PyList(<<>>))
                 ELSE store
           s2 == DictSet(s1, k, PyList(Append(Payload(DictGet(s1, k)), entry)))
       IN  append_all(s2, Tail(ks), entry)

\* endpoint(item, keys, message) on instance i; w is what the file system
\* does with the write.
endpoint(i, item, keys, message, w) ==
  LET ks    == key_list(bind_keys(keys))
      store == output_data[i]
  IN
  IF ~Truthy(item)
  THEN /\ last' = Call(i, "endpoint", item, keys, "none", <<"warning">>, 0)
       /\ UNCHANGED <<file, input, clock, output_data, gen, run>>
  ELSE IF ks # <<>> /\ Tag(store) # "dict"
  THEN \* `key not in` or the subscript raises TypeError before any change
       /\ last' = Call(i, "endpoint", item, keys, "raised", <<>>, 0)
       /\ UNCHANGED <<file, input, clock, output_data, gen, run>>
  ELSE LET entry == format_output_entry(item, message, clock)
           new   == IF ks = <<>> THEN store ELSE append_all(store, ks, entry)
       IN  /\ EntryCount(store) < MaxEntries
           /\ output_data' = [output_data EXCEPT ![i] = kept(store, new, w)]
           /\ file' = save_output_data(new, file, w)
           /\ last' = Call(i, "endpoint", item, keys, call_outcome(w),
                           IF call_outcome(w) = "none" THEN <<"info">> ELSE <<>>,
                           IF w = "openfail" THEN 0 ELSE 1)
           /\ UNCHANGED <<input, clock, gen, run>>

\* --------------------------------------------------------------- check

\* The loop of check with `break` for `continue` at a missing key.
RECURSIVE check_loop_break(_, _, _, _)
check_loop_break(store, ks, item_id, log) ==
  IF ks = <<>> THEN <<"false", log>>
  ELSE LET k == Head(ks) IN
       IF ~IsContainer(store) THEN <<"raised", log>>
       ELSE IF ~Contains(store, k) THEN <<"false", Append(log, "warning")>>
       ELSE IF ~Subscriptable(store, k) THEN <<"raised", log>>
       ELSE IF any_id(DictGet(store, k), item_id)
            THEN <<"true", Append(log, "info")>>
       ELSE check_loop_break(store, Tail(ks), item_id, log)

\* The loop of check over keys: <<result, log>>.
RECURSIVE check_loop(_, _, _, _)
check_loop(store, ks, item_id, log) ==
  IF ks = <<>> THEN <<"false", log>>
  ELSE LET k == Head(ks) IN
       IF ~IsContainer(store) THEN <<"raised", log>>
       ELSE IF ~Contains(store, k)
            THEN check_loop(store, Tail(ks), item_id, Append(log, "warning"))
       ELSE IF ~Subscriptable(store, k) THEN <<"raised", log>>
       ELSE IF any_id(DictGet(store, k), item_id)
            THEN <<"true", Append(log, "info")>>
       ELSE check_loop(store, Tail(ks), item_id, log)

\* What check(item, keys) gives on a store: <<result, log>>.
check_result(store, item, keys) ==
  check_loop(store, key_list(bind_keys(keys)), get_item_id(item), <<>>)

\* check(item, keys) on instance i.
check(i, item, keys) ==
  LET r == check_result(output_data[i], item, keys)
  IN  /\ last' = Call(i, "check", item, keys, r[1], r[2], 0)
      /\ UNCHANGED <<file, input, clock, output_data, gen, run>>

\* ---------------------------------------------------------------- done

\* What the history keeps of a done(item) that returned.
mark(r, item) ==
  [r EXCEPT !.marked = @ \cup {get_item_id(item)},
            !.pending = IF @ # None /\ get_item_id(@) = get_item_id(item)
                        THEN None ELSE @]

\* done that appends the entry to every category of the store.
append_done_everywhere(store, entry) ==
  PyDict([n \in 1..Len(Payload(store)) |->
            <<Payload(store)[n][1],
              PyList(Append(Payload(Payload(store)[n][2]), entry))>>])

\* done that appends only when `dones` has no entry with the id yet.
append_done_once(store, entry) ==
  IF any_id(DictGet(store, "dones"), Payload(DictGet(entry, "id")))
  THEN store
  ELSE DictSet(store, "dones",
               PyList(Append(Payload(DictGet(store, "dones")), entry)))

\* self.output_data["dones"].append(entry)
append_done(store, entry) ==
  DictSet(store, "dones",
          PyList(Append(Payload(DictGet(store, "dones")), entry)))

\* done(item, message) on instance i.
done(i, item, message, w) ==
  LET store == output_data[i] IN
  IF ~Truthy(item)
  THEN /\ last' = Call(i, "done", item, None, "none", <<"warning">>, 0)
       /\ UNCHANGED <<file, input, clock, output_data, gen, run>>
  ELSE IF ~Subscriptable(store, "dones")
  THEN \* self.output_data["dones"] raises KeyError or TypeError
       /\ last' = Call(i, "done", item, None, "raised", <<>>, 0)
       /\ UNCHANGED <<file, input, clock, output_data, gen, run>>
  ELSE LET entry == format_output_entry(item, message, clock)
           new   == append_done(store, entry)
       IN  /\ EntryCount(store) < MaxEntries
           /\ output_data' = [output_data EXCEPT ![i] = kept(store, new, w)]
           /\ file' = save_output_data(new, file, w)
           /\ last' = Call(i, "done", item, None, call_outcome(w),
                           IF call_outcome(w) = "none" THEN <<"info">> ELSE <<>>,
                           IF w = "openfail" THEN 0 ELSE 1)
           /\ run' = IF w = "ok" THEN mark(run, item) ELSE run
           /\ UNCHANGED <<input, clock, gen>>

\* ----------------------------------------------------------- generator

\* The for loop without the lookup in `dones`.
RECURSIVE scan_all(_, _, _, _, _)
scan_all(data, k, store, processed, skipped) ==
  IF k > Len(data)
  THEN [kind |-> "exhausted", index |-> k, processed |-> processed,
        skipped |-> skipped]
  ELSE IF ~Truthy(data[k])
  THEN scan_all(data, k + 1, store, processed, skipped + 1)
  ELSE [kind |-> "yield", index |-> k, processed |-> processed + 1,
        skipped |-> skipped]

\* The for loop that does not count the items it finds in `dones`.
RECURSIVE scan_uncounted(_, _, _, _, _)
scan_uncounted(data, k, store, processed, skipped) ==
  IF k > Len(data)
  THEN [kind |-> "exhausted", index |-> k, processed |-> processed,
        skipped |-> skipped]
  ELSE IF ~Truthy(data[k])
  THEN scan_uncounted(data, k + 1, store, processed, skipped + 1)
  ELSE IF ~Subscriptable(store, "dones")
  THEN [kind |-> "raised", index |-> k, processed |-> processed,
        skipped |-> skipped]
  ELSE IF any_id(DictGet(store, "dones"), get_item_id(data[k]))
  THEN scan_uncounted(data, k + 1, store, processed, skipped)
  ELSE [kind |-> "yield", index |-> k, processed |-> processed + 1,
        skipped |-> skipped]

\* The for loop without `if not item`: empty elements are looked up and
\* yielded like the others.
RECURSIVE scan_keep_empty(_, _, _, _, _)
scan_keep_empty(data, k, store, processed, skipped) ==
  IF k > Len(data)
  THEN [kind |-> "exhausted", index |-> k, processed |-> processed,
        skipped |-> skipped]
  ELSE IF ~Subscriptable(store, "dones")
  THEN [kind |-> "raised", index |-> k, processed |-> processed,
        skipped |-> skipped]
  ELSE IF any_id(DictGet(store, "dones"), get_item_id(data[k]))
  THEN scan_keep_empty(data, k + 1, store, processed, skipped + 1)
  ELSE [kind |-> "yield", index |-> k, processed |-> processed + 1,
        skipped |-> skipped]

\* The for loop that counts an empty element as processed.
RECURSIVE scan_miscount(_, _, _, _, _)
scan_miscount(data, k, store, processed, skipped) ==
  IF k > Len(data)
  THEN [kind |-> "exhausted", index |-> k, processed |-> processed,
        skipped |-> skipped]
  ELSE IF ~Truthy(data[k])
  THEN scan_miscount(data, k + 1, store, processed + 1, skipped)
  ELSE IF ~Subscriptable(store, "dones")
  THEN [kind |-> "raised", index |-> k, processed |-> processed,
        skipped |-> skipped]
  ELSE IF any_id(DictGet(store, "dones"), get_item_id(data[k]))
  THEN scan_miscount(data, k + 1, store, processed, skipped + 1)
  ELSE [kind |-> "yield", index |-> k, processed |-> processed + 1,
        skipped |-> skipped]

\* The for loop of generator from element k (counted from 1) on, until it
\* yields, raises or runs out of elements.
RECURSIVE scan(_, _, _, _, _)
scan(data, k, store, processed, skipped) ==
  IF k > Len(data)
  THEN [kind |-> "exhausted", index |-> k, processed |-> processed,
        skipped |-> skipped]
  ELSE IF ~Truthy(data[k])
  THEN scan(data, k + 1, store, processed, skipped + 1)
  ELSE IF ~Subscriptable(store, "dones")
  THEN [kind |-> "raised", index |-> k, processed |-> processed,
        skipped |-> skipped]
  ELSE IF any_id(DictGet(store, "dones"), get_item_id(data[k]))
  THEN scan(data, k + 1, store, processed, skipped + 1)
  ELSE [kind |-> "yield", index |-> k, processed |-> processed + 1,
        skipped |-> skipped]

\* What the history keeps of a request for the next item.
request(r) == [r EXCEPT !.disciplined = @ /\ r.pending = None]

\* What the history keeps of a yield. It stops recording once the caller
\* asked for an item without having marked the one before.
yield(r, item) ==
  IF ~r.disciplined
  THEN [r EXCEPT !.yielded = {}, !.pending = None, !.dup = FALSE]
  ELSE [r EXCEPT !.dup = @ \/ get_item_id(item) \in r.yielded,
                 !.yielded = @ \cup {get_item_id(item)},
                 !.pending = item]

forget(r) ==
  IF ~r.disciplined
  THEN [r EXCEPT !.yielded = {}, !.pending = None, !.dup = FALSE]
  ELSE r

\* generator(): the call only creates the generator object.
generator(i) ==
  /\ gen' = [gen EXCEPT ![i] = [NoGen EXCEPT !.pc = "created"]]
  /\ last' = Call(i, "generator", None, None, "none", <<>>, 0)
  /\ UNCHANGED <<file, input, clock, output_data, run>>

\* len(self.output_data["dones"]), 0 for a store without the category.
dones_len(store) ==
  IF Subscriptable(store, "dones") THEN Len(Payload(DictGet(store, "dones")))
  ELSE 0

\* The generator runs on from element k with the counters given.
resume(i, data, k, processed, skipped, d0) ==
  LET r == scan(data, k, output_data[i], processed, skipped)
      g == [pc |-> "finished", data |-> data, index |-> r.index,
            total |-> Len(data), processed |-> r.processed,
            skipped |-> r.skipped, summaries |-> gen[i].summaries,
            yields |-> gen[i].yields, dones0 |-> d0]
  IN
  CASE r.kind = "yield" ->
         /\ gen' = [gen EXCEPT ![i] = [g EXCEPT !.pc = "suspended",
                                                !.yields = @ + 1]]
         /\ last' = Call(i, "next", data[r.index], None, "yield", <<>>, 0)
         /\ run' = yield(request(run), data[r.index])
    [] r.kind = "raised" ->
         /\ gen' = [gen EXCEPT ![i] = g]
         /\ last' = Call(i, "next", None, None, "raised", <<>>, 0)
         /\ run' = forget(request(run))
    [] r.kind = "exhausted" ->
         /\ gen' = [gen EXCEPT ![i] = [g EXCEPT !.summaries = @ + 1]]
         /\ last' = Call(i, "next", None, None, "stop", <<"summary">>, 0)
         /\ run' = forget(request(run))

\* The generator ends without having looked at an element.
finish(i, ret, log) ==
  /\ gen' = [gen EXCEPT ![i] = [@ EXCEPT !.pc = "finished"]]
  /\ last' = Call(i, "next", None, None, ret, log, 0)
  /\ run' = forget(request(run))

\* The first next(): the body runs from its start, opening input_path.
\* open(None) raises TypeError, which no except clause of generator catches.
start(i) ==
  CASE input.kind = "nopath"  -> finish(i, "raised", <<>>)
    [] input.kind = "absent"  -> finish(i, "stop", <<"error", "error">>)
    [] input.kind = "corrupt" -> finish(i, "stop", <<"error">>)
    [] input.kind = "json" ->
         LET data == json_load(input.doc) IN
         IF Tag(data) # "list" THEN finish(i, "stop", <<"error">>)
         ELSE resume(i, Payload(data), 1, 0, 0, dones_len(output_data[i]))

\* next() on the generator object of instance i.
next(i) ==
  /\ gen[i].pc # "none"
  /\ UNCHANGED <<file, input, clock, output_data>>
  /\ CASE gen[i].pc = "created" -> start(i)
       [] gen[i].pc = "suspended" ->
            resume(i, gen[i].data, gen[i].index + 1, gen[i].processed,
                   gen[i].skipped, gen[i].dones0)
       [] gen[i].pc = "finished" -> finish(i, "stop", <<>>)

\* A generator that logs its summary in a `finally`, also when it is
\* dropped.
close_with_summary(i) ==
  /\ gen[i].pc \in {"created", "suspended"}
  /\ gen' = [gen EXCEPT ![i] = [@ EXCEPT !.pc = "finished",
                                         !.summaries = @ + 1]]
  /\ last' = Call(i, "close", None, None, "none", <<"summary">>, 0)
  /\ UNCHANGED <<file, input, clock, output_data, run>>

\* The caller drops the generator object before it is exhausted.
close(i) ==
  /\ gen[i].pc \in {"created", "suspended"}
  /\ gen' = [gen EXCEPT ![i] = [@ EXCEPT !.pc = "finished"]]
  /\ last' = Call(i, "close", None, None, "none", <<>>, 0)
  /\ UNCHANGED <<file, input, clock, output_data, run>>

\* CyyLog(input_path, output_path): a new process on the same files. When
\* the constructor raises there is no object to call.
init(i) ==
  /\ output_data' = [output_data EXCEPT ![i] =
                       IF load_raises(file) THEN NoInstance
                       ELSE load_output_data(file)]
  /\ gen' = [gen EXCEPT ![i] = NoGen]
  /\ last' = Call(i, "init", None, None,
                  IF load_raises(file) THEN "raised" ELSE "none", <<>>, 0)
  /\ UNCHANGED <<file, input, clock, run>>

\* Time passes.
Tick ==
  /\ clock < MaxClock
  /\ clock' = clock + 1
  /\ last' = Call(0, "tick", None, None, "none", <<>>, 0)
  /\ UNCHANGED <<file, input, output_data, gen, run>>

\* ------------------------------------------------------ the arguments

ItemA == PyDict(<< <<"a", PyInt(1)>> >>)
ItemAB == PyDict(<< <<"a", PyInt(1)>>, <<"b", PyInt(2)>> >>)
ItemBA == PyDict(<< <<"b", PyInt(2)>>, <<"a", PyInt(1)>> >>)
\* An item with text outside ASCII.
ItemU == PyDict(<< <<"a", PyStr("\\u00e9")>> >>)
EmptyDict == PyDict(<<>>)

\* A mapping nested three deep, and the same mapping with the keys of every
\* level in the other order.
Nested ==
  PyDict(<< <<"a", PyInt(1)>>,
            <<"b", PyDict(<< <<"a", PyStr("s")>>,
                             <<"k", PyList(<< ItemAB >>)>> >>)>> >>)
NestedReversed ==
  PyDict(<< <<"b", PyDict(<< <<"k", PyList(<< ItemBA >>)>>,
                             <<"a", PyStr("s")>> >>)>>,
            <<"a", PyInt(1)>> >>)

\* The sequences over S of length n.
RECURSIVE Arrangements(_, _)
Arrangements(S, n) ==
  IF n = 0 THEN {<<>>}
  ELSE {Append(t, x) : t \in Arrangements(S, n - 1), x \in S}

\* The tuples that take their n-th component from sets[n].
RECURSIVE Tuples(_)
Tuples(sets) ==
  IF sets = <<>> THEN {<<>>}
  ELSE {<<x>> \o t : x \in Head(sets), t \in Tuples(Tail(sets))}

\* Every value that is v with the keys of its mappings, at any level,
\* inserted in some other order.
RECURSIVE Reorderings(_)
Reorderings(v) ==
  CASE Tag(v) = "list" ->
         {PyList(t) : t \in Tuples([n \in 1..Len(Payload(v)) |->
                                      Reorderings(Payload(v)[n])])}
    [] Tag(v) = "dict" ->
         LET n  == Len(Payload(v))
             vs == Tuples([m \in 1..n |-> Reorderings(Payload(v)[m][2])])
             ps == {p \in Arrangements(1..n, n) :
                      \A a, b \in 1..n : a # b => p[a] # p[b]}
         IN  {PyDict([m \in 1..n |-> <<Payload(v)[p[m]][1], t[p[m]]>>]) :
                p \in ps, t \in vs}
    [] OTHER -> {v}

\* The falsy values.
Empties == {EmptyDict, PyList(<<>>), PyStr(""), PyInt(0), PyBool(FALSE), None}

Custom == PyStr("custom")

RECURSIVE SeqsUpTo(_, _)
SeqsUpTo(S, n) ==
  IF n = 0 THEN {<<>>}
  ELSE LET T == SeqsUpTo(S, n - 1)
       IN  T \cup {Append(t, x) : t \in {u \in T : Len(u) = n - 1}, x \in S}

\* The elements of the input lists.
GenItems == {ItemA, ItemAB, EmptyDict}

InputLists == SeqsUpTo(GenItems, MaxLen)

NoPath == [kind |-> "nopath", doc |-> <<"null", 0>>]
ListFile(l) == JsonFile(json_dump(PyList(l)))

Inputs ==
  {NoPath, Absent, Corrupt, JsonFile(json_dump(ItemA))}
  \cup {ListFile(l) : l \in InputLists}

\* The store files a run of the program leaves behind, or none.
StoreFiles == {Absent, Corrupt, JsonFile(json_dump(EmptyStore))}

\* ---------------------------------------------------- the specifications

InitWith(files, inputs) ==
  /\ file \in files
  /\ input \in inputs
  /\ clock = 0
  /\ output_data = [i \in Inst |-> load_output_data(file)]
  /\ gen = [i \in Inst |-> NoGen]
  /\ last = Call(1, "init", None, None, "none", <<>>, 0)
  /\ run = NoRun

Init == InitWith(StoreFiles, Inputs)

\* One process at a time iterates its input and marks items done: every run
\* is a new instance 1, and every write succeeds.
Next ==
  \/ init(1)
  \/ endpoint(1, ItemA, Custom, None, "ok")
  \/ check(1, ItemA, PyList(<<Custom>>))
  \/ \E item \in {ItemA, ItemBA} : done(1, item, None, "ok")
  \/ generator(1)
  \/ next(1)
  \/ close(1)

Spec == Init /\ [][Next]_vars

\* The scenario of the specification: the source list [{"a":1}, {}, {"a":1}]
\* and an empty store; the caller marks the item done when it likes.
ScenarioList == <<ItemA, EmptyDict, ItemA>>

InitScenario ==
  InitWith({Absent, JsonFile(json_dump(EmptyStore))}, {ListFile(ScenarioList)})

NextScenario ==
  \/ init(1)
  \/ done(1, ItemA, None, "ok")
  \/ generator(1)
  \/ next(1)
  \/ close(1)

SpecScenario == InitScenario /\ [][NextScenario]_vars

\* The store on its own: records, marks and checks of one instance, with
\* writes that may fail.
StoreItems == {ItemA, ItemBA}
EndpointKeys == {Omitted, Custom}
CheckItems == {ItemA, ItemAB}
CheckCalls ==
  {<<ItemA, Omitted>>, <<ItemAB, Custom>>, <<ItemAB, PyList(<<Custom>>)>>,
   <<ItemA, PyStr("dones")>>,
   <<ItemAB, PyList(<<PyStr("missing"), PyStr("dones")>>)>>}

InitStore == InitWith(StoreFiles, {NoPath})

NextStore ==
  \/ init(1)
  \/ \E item \in StoreItems, keys \in EndpointKeys :
        endpoint(1, item, keys, None, "ok")
  \/ endpoint(1, ItemA, Custom, None, "partial")
  \/ \E c \in CheckCalls : check(1, c[1], c[2])
  \/ \E item \in StoreItems : done(1, item, None, "ok")
  \/ \E w \in {"openfail", "partial"} : done(1, ItemA, None, w)
  \/ done(1, EmptyDict, None, "ok")

SpecStore == InitStore /\ [][NextStore]_vars

\* Calls with an empty item, among calls that fill the store.
Messages == {None, PyStr(""), PyStr("m")}

NextEmpty ==
  \/ init(1)
  \/ \E keys \in EndpointKeys : endpoint(1, ItemA, keys, None, "ok")
  \/ done(1, ItemA, None, "ok")
  \/ \E item \in Empties, keys \in EndpointKeys, message \in Messages :
        endpoint(1, item, keys, message, "ok")
  \/ \E item \in Empties, message \in Messages : done(1, item, message, "ok")

SpecEmpty == InitStore /\ [][NextEmpty]_vars

\* Store files of any content: also an object without `dones`, and
\* documents that are no object.
OddFiles ==
  {JsonFile(json_dump(PyDict(<< <<"endpoint", PyList(<<>>)>> >>))),
   JsonFile(json_dump(PyList(<<>>))),
   JsonFile(json_dump(PyInt(5)))}

InitAnyFile ==
  InitWith(StoreFiles \cup OddFiles,
           {ListFile(<<ItemA>>), ListFile(<<EmptyDict, ItemA>>)})

SpecAnyFile == InitAnyFile /\ [][Next]_vars

\* Items that differ in the order of their keys only: recorded and marked
\* in one order, looked up and read from the input in another.
HashItems == Reorderings(Nested) \cup {ItemA, ItemAB, ItemBA}

InitHash ==
  InitWith({Absent}, {ListFile(<<Nested>>), ListFile(<<ItemAB, NestedReversed>>)})

NextHash ==
  \/ init(1)
  \/ endpoint(1, Nested, Custom, None, "ok")
  \/ \E item \in {NestedReversed, ItemBA} : done(1, item, None, "ok")
  \/ \E item \in HashItems : check(1, item, PyList(<<Custom, PyStr("dones")>>))
  \/ generator(1)
  \/ next(1)
  \/ close(1)

SpecHash == InitHash /\ [][NextHash]_vars

\* Restarts among writes that fail: the process is started again on the
\* file a failed write left.
NextLoad ==
  \/ init(1)
  \/ \E item \in {ItemA, ItemU}, w \in {"ok", "openfail", "partial", "cut"} :
        done(1, item, None, w)
  \/ \E w \in {"ok", "cut"} : endpoint(1, ItemU, Custom, None, w)
  \/ check(1, ItemU, PyList(<<Custom, PyStr("dones")>>))

SpecLoad == InitStore /\ [][NextLoad]_vars

\* Records under several categories, some of them new, while time passes.
MultiKeys ==
  {PyList(<<Custom, PyStr("endpoint")>>),
   PyList(<<PyStr("dones"), Custom>>),
   PyList(<<Custom, Custom>>),
   Custom}

NextMulti ==
  \/ init(1)
  \/ Tick
  \/ \E keys \in MultiKeys, message \in {None, PyStr("m")} :
        endpoint(1, ItemBA, keys, message, "ok")
  \/ done(1, ItemA, None, "ok")

SpecMulti == InitStore /\ [][NextMulti]_vars

\* Two processes on the same output file: each marks its own item done,
\* and process 1 is run again and iterates the input.
InitTwo ==
  InitWith({Absent}, {ListFile(<<ItemA, ItemAB>>), ListFile(<<ItemAB>>)})

NextTwo ==
  \/ \E i \in Inst : init(i)
  \/ done(1, ItemA, None, "ok")
  \/ done(2, ItemBA, None, "ok")
  \/ endpoint(2, ItemA, Custom, None, "ok")
  \/ generator(1)
  \/ next(1)
  \/ close(1)

SpecTwo == InitTwo /\ [][NextTwo]_vars

\* ------------------------------------------------------------ properties

\* The ids of the entries of category c, in order; none for a store
\* without the category.
IdsOf(store, c) ==
  IF Tag(store) = "dict" /\ c \in KeySet(store)
  THEN [n \in 1..Len(Payload(DictGet(store, c))) |->
          DictGet(Payload(DictGet(store, c))[n], "id")]
  ELSE <<>>

Range(seq) == {seq[n] : n \in 1..Len(seq)}

InCategory(store, c, item) == PyStr(get_item_id(item)) \in Range(IdsOf(store, c))

Yielded == last.op = "next" /\ last.ret = "yield"

Exhausted(i) == gen[i].pc = "finished" /\ gen[i].summaries = 1

\* C1: exactly-once across runs. As long as the caller has marked every
\* yielded item done before it asked for the next one, no id was yielded
\* twice over all runs; and no run yields an item a done() call marked
\* earlier, in this run or in one before it.
C1_ExactlyOnce ==
  /\ run.disciplined => ~run.dup
  /\ Yielded => get_item_id(last.item) \notin run.marked

\* C1's case: a run that started after items were marked has skipped them
\* and has yielded another one, every yield having been marked in time.
C1_Witness ==
  /\ run.disciplined
  /\ Cardinality(run.yielded) = 2
  /\ run.pending = None
  /\ gen[1].pc = "finished"
  /\ gen[1].dones0 >= 1
  /\ gen[1].skipped >= 1
  /\ gen[1].processed = 1

\* C2: idempotent skip. An item that generator yields is not in `dones` of
\* the instance's store: while `dones` holds an entry with id(X), no next()
\* yields X, whatever calls came before.
C2_IdempotentSkip ==
  Yielded => ~InCategory(output_data[last.inst], "dones", last.item)

\* C2's case: a generator ran through a list whose non-empty elements were
\* all in `dones`, and yielded none of them.
C2_Witness ==
  /\ Exhausted(1)
  /\ gen[1].processed = 0
  /\ \E k \in 1..Len(gen[1].data) :
        /\ Truthy(gen[1].data[k])
        /\ InCategory(output_data[1], "dones", gen[1].data[k])

\* C3, as the specification states it: the first run over the scenario's
\* list reports total=3, processed=1, skipped=1, and a run that started with
\* the item done reports processed=0, skipped=3.
C3_Original ==
  Exhausted(1) =>
    /\ gen[1].dones0 = 0 =>
         gen[1].total = 3 /\ gen[1].processed = 1 /\ gen[1].skipped = 1
    /\ gen[1].dones0 > 0 =>
         gen[1].total = 3 /\ gen[1].processed = 0 /\ gen[1].skipped = 3

\* C3, amended: a first run whose caller marks the item as soon as it is
\* yielded reports total=3, processed=1, skipped=2 (the empty element and the
\* duplicate of the item now done); a first run whose caller has marked
\* nothing when the run ends reports processed=2, skipped=1 (the item is
\* yielded twice); a run that started with the item done reports
\* processed=0, skipped=3.
C3_Scenario ==
  Exhausted(1) =>
    /\ gen[1].total = 3
    /\ (gen[1].dones0 = 0 /\ run.disciplined) =>
         gen[1].processed = 1 /\ gen[1].skipped = 2
    /\ (gen[1].dones0 = 0 /\ dones_len(output_data[1]) = 0) =>
         gen[1].processed = 2 /\ gen[1].skipped = 1
    /\ gen[1].dones0 > 0 =>
         gen[1].processed = 0 /\ gen[1].skipped = 3

\* C3's case: the item was yielded once and marked at once, and a later run
\* over the same list has ended having skipped all three elements.
C3_Witness ==
  /\ Exhausted(1)
  /\ run.disciplined
  /\ run.yielded = {get_item_id(ItemA)}
  /\ gen[1].dones0 = 1
  /\ gen[1].skipped = 3

\* C4, as claimed: `dones` is a category of every instance's store in every
\* reachable state, whatever the store file held, so that neither done() nor
\* the generator raises for the lack of it.
C4_DonesAlwaysPresent ==
  /\ \A i \in Inst :
        Tag(output_data[i]) = "dict" /\ "dones" \in KeySet(output_data[i])
  /\ ~(last.op \in {"done", "next"} /\ last.ret = "raised")

\* C8, as claimed: with no input path, a missing file, a file that does not
\* parse or one that holds no list, next() ends the iteration without
\* raising and without yielding, and the store is as it was.
BadInput ==
  \/ input.kind \in {"nopath", "absent", "corrupt"}
  \/ input.kind = "json" /\ input.doc[1] # "array"

C8_NoRaiseOnBadInput ==
  (last.op = "next" /\ BadInput) => (last.ret = "stop" /\ last.wrote = 0)

\* The category names a keys argument stands for.
NamesOf(keys) ==
  IF keys = Omitted THEN {"endpoint"}
  ELSE IF Tag(keys) = "str" THEN {Payload(keys)}
  ELSE {Payload(Payload(keys)[n]) : n \in 1..Len(Payload(keys))}

\* The entries of category c, none for a store without it.
EntriesOf(store, c) ==
  IF Tag(store) = "dict" /\ c \in KeySet(store)
  THEN Payload(DictGet(store, c)) ELSE <<>>

IsPrefix(s, t) == Len(s) <= Len(t) /\ \A n \in 1..Len(s) : s[n] = t[n]

\* Every category of old is a category of new at the same place and with
\* the same entries at the same places.
AppendOnly(old, new) ==
  /\ IsPrefix(DictKeys(old), DictKeys(new))
  /\ \A c \in KeySet(old) : IsPrefix(EntriesOf(old, c), EntriesOf(new, c))

\* C5: append-only history. A record call with a non-empty item and one
\* category that returns puts exactly one entry, for that item, at the end
\* of the category (which starts empty when the store had none), so N calls
\* leave N entries in call order; and no record, mark_done or exists call
\* removes, moves or rewrites an entry or a category written before.
C5_AppendOnly ==
  [][\A i \in Inst :
       /\ last'.op \in {"endpoint", "done", "check"} =>
            AppendOnly(output_data[i], output_data'[i])
       /\ (/\ last'.op = "endpoint" /\ last'.inst = i /\ last'.ret = "none"
           /\ last'.item \notin Empties
           /\ Cardinality(NamesOf(last'.keys)) = 1) =>
            \A c \in NamesOf(last'.keys) :
               LET old == EntriesOf(output_data[i], c)
                   new == EntriesOf(output_data'[i], c)
               IN  /\ Len(new) = Len(old) + 1
                   /\ IsPrefix(old, new)
                   /\ DictGet(new[Len(new)], "item") = last'.item
                   /\ DictGet(new[Len(new)], "id") = PyStr(get_item_id(last'.item))
    ]_vars

\* C5's case: two records of distinct items under one category that the
\* store did not have, in call order, and an exists call after them.
C5_Witness ==
  /\ EntriesOf(output_data[1], "custom") # <<>>
  /\ Len(EntriesOf(output_data[1], "custom")) = 2
  /\ DictGet(EntriesOf(output_data[1], "custom")[1], "item") = ItemBA
  /\ DictGet(EntriesOf(output_data[1], "custom")[2], "item") = ItemA
  /\ last.op = "check"

\* C6: cross-category independence. mark_done of a non-empty item adds one
\* entry to `dones` and changes no other category nor the category names,
\* so no exists(x, ["custom"]) changes its answer; a record under categories
\* other than `dones` leaves `dones` as it was, and the generator yields the
\* recorded item as long as it is not in `dones`.
C6_CrossCategory ==
  [][\A i \in Inst :
       /\ (last'.op = "done" /\ last'.inst = i /\ last'.item \notin Empties) =>
            /\ DictKeys(output_data'[i]) = DictKeys(output_data[i])
            /\ \A c \in KeySet(output_data[i]) \ {"dones"} :
                  EntriesOf(output_data'[i], c) = EntriesOf(output_data[i], c)
            /\ Len(EntriesOf(output_data'[i], "dones"))
                  = Len(EntriesOf(output_data[i], "dones")) + 1
            /\ IsPrefix(EntriesOf(output_data[i], "dones"),
                        EntriesOf(output_data'[i], "dones"))
            /\ \A x \in StoreItems \cup {ItemAB} :
                  check_result(output_data'[i], x, PyList(<<Custom>>))[1]
                    = check_result(output_data[i], x, PyList(<<Custom>>))[1]
       /\ (/\ last'.op = "endpoint" /\ last'.inst = i
           /\ last'.item \notin Empties
           /\ "dones" \notin NamesOf(last'.keys)) =>
            /\ EntriesOf(output_data'[i], "dones") = EntriesOf(output_data[i], "dones")
            /\ ~InCategory(output_data'[i], "dones", last'.item) =>
                  scan(<<last'.item>>, 1, output_data'[i], 0, 0).kind = "yield"
    ]_vars

\* C6's case: an item is in `dones` and exists(item, ["custom"]) has just
\* answered false, while another item is under "custom" and not in `dones`.
C6_Witness ==
  /\ last.op = "check" /\ last.keys = PyList(<<Custom>>) /\ last.ret = "false"
  /\ InCategory(output_data[1], "dones", last.item)
  /\ EntriesOf(output_data[1], "custom") # <<>>

\* What a new instance on the same path would load is the store of the
\* instance that made the last call, and both answer alike.
Durable ==
  LET mem == output_data[last.inst]
      new == load_output_data(file)
  IN  /\ new = mem
      /\ DictKeys(new) = DictKeys(mem)
      /\ \A c \in KeySet(mem) : IdsOf(new, c) = IdsOf(mem, c)
      /\ \A c \in CheckCalls :
            check_result(new, c[1], c[2])[1] = check_result(mem, c[1], c[2])[1]
      /\ \A l \in InputLists :
            scan(l, 1, new, 0, 0) = scan(l, 1, mem, 0, 0)

\* C7, as claimed: after every record or mark_done call that returns
\* normally a new instance loads the store the caller has in memory.
C7_Original ==
  (last.op \in {"endpoint", "done"} /\ last.ret = "none") => Durable

\* C7, amended: after every record or mark_done call with a non-empty item
\* that returns normally, the file holds the in-memory store and a new
\* instance loads a store equal to it and answers as the caller's does.
C7_RoundTrip ==
  (/\ last.op \in {"endpoint", "done"} /\ last.ret = "none"
   /\ last.item \notin Empties) =>
     /\ file = JsonFile(json_dump(output_data[last.inst]))
     /\ Durable

\* C7's case: a call has written a store of two categories, one entry
\* holding an item whose keys are not in sorted order.
C7_Witness ==
  /\ last.op \in {"endpoint", "done"} /\ last.ret = "none"
  /\ last.item = ItemBA
  /\ Len(DictKeys(output_data[1])) >= 2
  /\ EntryCount(output_data[1]) = 2

\* C9: empty-item rejection. record and mark_done with an empty item return
\* without raising, leave the store as it was and do not write the file.
C9_EmptyRejected ==
  [][(last'.op \in {"endpoint", "done"} /\ last'.item \in Empties) =>
       /\ last'.ret = "none"
       /\ last'.wrote = 0
       /\ output_data' = output_data
       /\ file' = file
    ]_vars

\* C9's case: done(0) has just been called on a store that holds one entry
\* and whose file has been written.
C9_Witness ==
  /\ last.op = "done" /\ last.item = PyInt(0)
  /\ file.kind = "json"
  /\ EntryCount(output_data[1]) = 1

\* C10: check returns true exactly when a named category is in the store
\* and holds an entry with the item's id; without keys it looks at
\* "endpoint" only; a name and the list of that name alone answer alike.
C10_Check ==
  /\ last.op = "check" =>
       last.ret = IF \E c \in NamesOf(last.keys) :
                       InCategory(output_data[last.inst], c, last.item)
                  THEN "true" ELSE "false"
  /\ \A x \in CheckItems, c \in {"dones", "custom", "endpoint", "missing"} :
        check_result(output_data[1], x, PyStr(c))[1]
          = check_result(output_data[1], x, PyList(<<PyStr(c)>>))[1]
  /\ \A x \in CheckItems :
        check_result(output_data[1], x, Omitted)[1]
          = IF InCategory(output_data[1], "endpoint", x) THEN "true" ELSE "false"

\* C10's case: check without keys has answered false for an item that is
\* in `dones` and under "custom", but not under "endpoint".
C10_Witness ==
  /\ last.op = "check" /\ last.keys = Omitted /\ last.ret = "false"
  /\ InCategory(output_data[1], "dones", last.item)
  /\ InCategory(output_data[1], "custom", last.item)

\* The named categories of a check call that the store does not have.
MissingOf(store, keys) == {c \in NamesOf(keys) : ~Contains(store, c)}

\* C11: missing category on check. An exists call that names a category the
\* store does not have does not raise, leaves the store and the file as
\* they were (the category is not created), reports the missing category
\* with a warning, and still answers by the categories that are there: true
\* when one of them holds the item, false when none does.
C11_MissingCategory ==
  [][\A i \in Inst :
       (/\ last'.op = "check" /\ last'.inst = i
        /\ MissingOf(output_data[i], last'.keys) # {}) =>
          /\ last'.ret \in {"true", "false"}
          /\ output_data' = output_data
          /\ file' = file
          /\ MissingOf(output_data'[i], last'.keys)
                = MissingOf(output_data[i], last'.keys)
          /\ last'.ret = "true" <=>
                \E c \in NamesOf(last'.keys) :
                   InCategory(output_data[i], c, last'.item)
          /\ last'.ret = "false" => "warning" \in Range(last'.log)
    ]_vars

\* C11's case: exists(item, ["missing", "dones"]) has answered true for an
\* item in `dones`, having gone past the category the store does not have.
C11_Witness ==
  /\ last.op = "check" /\ last.ret = "true"
  /\ last.keys = PyList(<<PyStr("missing"), PyStr("dones")>>)
  /\ last.log = <<"warning", "info">>
  /\ "missing" \notin KeySet(output_data[1])

\* x and y are the same value up to the order of the keys of their
\* mappings, at every level.
RECURSIVE SameMapping(_, _)
SameMapping(x, y) ==
  /\ Tag(x) = Tag(y)
  /\ CASE Tag(x) = "dict" ->
             /\ Len(Payload(x)) = Len(Payload(y))
             /\ KeySet(x) = KeySet(y)
             /\ \A k \in KeySet(x) : SameMapping(DictGet(x, k), DictGet(y, k))
        [] Tag(x) = "list" ->
             /\ Len(Payload(x)) = Len(Payload(y))
             /\ \A n \in 1..Len(Payload(x)) :
                   SameMapping(Payload(x)[n], Payload(y)[n])
        [] OTHER -> x = y

\* Category c of the store holds an entry whose item is x up to key order.
HoldsSame(store, c, x) ==
  \E n \in 1..Len(EntriesOf(store, c)) :
     SameMapping(DictGet(EntriesOf(store, c)[n], "item"), x)

\* C12: canonical hashing is independent of key order. Two mappings that
\* differ only in the order of their keys, at any level, have the same id;
\* so exists answers true for an item recorded or marked in another key
\* order, and the generator does not yield an item that is in `dones` in
\* another key order.
C12_KeyOrder ==
  /\ \A y \in HashItems :
        SameMapping(last.item, y) => get_item_id(last.item) = get_item_id(y)
  /\ (/\ last.op = "check"
      /\ \E c \in NamesOf(last.keys) :
            HoldsSame(output_data[last.inst], c, last.item))
       => last.ret = "true"
  /\ Yielded => ~HoldsSame(output_data[last.inst], "dones", last.item)

\* C12's case: a run over the list [Nested] has ended without a yield, the
\* only entry of `dones` holding the item with the keys of every level in
\* the other order.
C12_Witness ==
  /\ Exhausted(1)
  /\ gen[1].data = <<Nested>>
  /\ gen[1].processed = 0 /\ gen[1].skipped = 1
  /\ Len(EntriesOf(output_data[1], "dones")) = 1
  /\ DictGet(EntriesOf(output_data[1], "dones")[1], "item") = NestedReversed

\* C13, as claimed: a record or mark_done call whose write failed has
\* raised (the file does not hold the store the caller has in memory only
\* after a call that raised), and no construction raises, whatever the
\* file at output_path holds.
C13_WriteRaisesLoadNever ==
  /\ (/\ last.op \in {"endpoint", "done"} /\ last.item \notin Empties
      /\ file # JsonFile(json_dump(output_data[last.inst])))
       => last.ret = "raised"
  /\ last.op = "init" => last.ret = "none"

\* The input file holds a list.
ListInput == input.kind = "json" /\ input.doc[1] = "array"

\* The generator passes over x when it reaches it with this store.
Passed(store, x) == x \in Empties \/ InCategory(store, "dones", x)

\* C14: stream filter. Each next() on a list input passes over the elements
\* after the last one yielded that are empty or in `dones` as the store is
\* at that call, and yields the first element that is neither, or ends after
\* the last element: so a run yields, in source order, exactly the elements
\* that are non-empty and not in `dones` at the moment they are reached.
C14_StreamFilter ==
  [][\A i \in Inst :
       (/\ last'.op = "next" /\ last'.inst = i
        /\ gen[i].pc \in {"created", "suspended"}
        /\ ListInput) =>
          LET data == Payload(json_load(input.doc))
              from == IF gen[i].pc = "created" THEN 0 ELSE gen[i].index
              to   == gen'[i].index
          IN  /\ gen'[i].data = data
              /\ last'.ret \in {"yield", "stop"}
              /\ from < to /\ to <= Len(data) + 1
              /\ \A k \in (from + 1)..(to - 1) : Passed(output_data[i], data[k])
              /\ last'.ret = "yield" <=> to <= Len(data)
              /\ last'.ret = "yield" =>
                    /\ ~Passed(output_data[i], data[to])
                    /\ last'.item = data[to]
                    /\ gen'[i].pc = "suspended"
    ]_vars

\* C14's case: over the list [X, X] the second X was skipped because the
\* caller had marked the first one done after the run had started.
C14_Witness ==
  /\ Exhausted(1)
  /\ Len(gen[1].data) = 2 /\ gen[1].data[1] = gen[1].data[2]
  /\ gen[1].dones0 = 0
  /\ gen[1].yields = 1 /\ gen[1].skipped = 1

\* C14's other case: over the list [X, X] the second X was yielded again,
\* no item having been marked done.
C14_WitnessAgain ==
  /\ gen[1].pc = "suspended" /\ gen[1].index = 2
  /\ gen[1].data[1] = gen[1].data[2]
  /\ gen[1].yields = 2
  /\ EntriesOf(output_data[1], "dones") = <<>>

\* C15: summary emission. A generator logs its summary at most once; it has
\* logged it exactly when it ran past the last element of a list input (not
\* when it was dropped before, nor when the input is missing, does not
\* parse or holds no list), and the line is logged by the next() that ends
\* the iteration, with the counts of the whole list.
C15_SummaryOnce ==
  /\ \A i \in Inst :
        /\ gen[i].summaries \in {0, 1}
        /\ gen[i].summaries = 1 <=>
              /\ gen[i].pc = "finished"
              /\ ListInput
              /\ gen[i].index = Len(Payload(json_load(input.doc))) + 1
        /\ gen[i].summaries = 1 =>
              gen[i].total = Len(Payload(json_load(input.doc)))
  /\ "summary" \in Range(last.log) =>
        /\ last.op = "next" /\ last.ret = "stop"
        /\ last.log = <<"summary">>
        /\ gen[last.inst].summaries = 1

\* C15's case: a generator was dropped after its first yield and calls
\* went on after that, without a summary.
C15_Witness ==
  /\ gen[1].pc = "finished"
  /\ gen[1].yields = 1 /\ gen[1].index = 1 /\ Len(gen[1].data) = 2
  /\ gen[1].summaries = 0
  /\ last.op = "next" /\ last.ret = "stop"

\* C15's other case: next() was called again on a generator that had
\* logged its summary, and logged nothing.
C15_WitnessOnce ==
  /\ gen[1].summaries = 1
  /\ last.op = "next" /\ last.ret = "stop" /\ last.log = <<>>

\* The last entry of category c.
LastOf(store, c) == EntriesOf(store, c)[Len(EntriesOf(store, c))]

\* C16: multi-category record. A record call with a non-empty item that
\* returns has put one and the same entry (the item, its id, the time of the
\* call, the message) at the end of every named category, the categories
\* the store lacked coming after the ones it had; with pairwise distinct
\* names every named category has grown by exactly one entry; the other
\* categories are as they were; and the file holds the store after all the
\* appends, written once.
C16_MultiCategory ==
  [][\A i \in Inst :
       (/\ last'.op = "endpoint" /\ last'.inst = i /\ last'.ret = "none"
        /\ last'.item \notin Empties) =>
          LET old   == output_data[i]
              new   == output_data'[i]
              names == NamesOf(last'.keys)
              ks    == key_list(bind_keys(last'.keys))
              e     == LastOf(new, ks[1])
          IN  /\ DictGet(e, "item") = last'.item
              /\ DictGet(e, "id") = PyStr(get_item_id(last'.item))
              /\ DictGet(e, "timestamp") = PyStr(isoformat(clock))
              /\ \A c \in names :
                    /\ IsPrefix(EntriesOf(old, c), EntriesOf(new, c))
                    /\ \A n \in (Len(EntriesOf(old, c)) + 1)..Len(EntriesOf(new, c)) :
                          EntriesOf(new, c)[n] = e
                    /\ Len(EntriesOf(new, c)) > Len(EntriesOf(old, c))
                    /\ Cardinality(names) = Len(ks) =>
                          Len(EntriesOf(new, c)) = Len(EntriesOf(old, c)) + 1
              /\ \A c \in KeySet(old) \ names :
                    EntriesOf(new, c) = EntriesOf(old, c)
              /\ KeySet(new) = KeySet(old) \cup names
              /\ IsPrefix(DictKeys(old), DictKeys(new))
              /\ last'.wrote = 1
              /\ file' = JsonFile(json_dump(new))
    ]_vars

\* C16's case: a record under ["custom", "endpoint"] at a later time has
\* added its entry after the one "custom" held and has created "endpoint"
\* with the same entry.
C16_Witness ==
  /\ last.op = "endpoint" /\ last.ret = "none"
  /\ last.keys = PyList(<<Custom, PyStr("endpoint")>>)
  /\ Len(EntriesOf(output_data[1], "custom")) = 2
  /\ Len(EntriesOf(output_data[1], "endpoint")) = 1
  /\ LastOf(output_data[1], "custom") = LastOf(output_data[1], "endpoint")
  /\ EntriesOf(output_data[1], "custom")[1] # LastOf(output_data[1], "custom")
  /\ DictGet(LastOf(output_data[1], "custom"), "timestamp") = PyStr(isoformat(1))
  /\ "message" \in KeySet(LastOf(output_data[1], "endpoint"))

\* The categories a call writes to.
Written(c) == IF c.op = "done" THEN {"dones"} ELSE NamesOf(c.keys)

\* C17: no deduplication on write. A mark_done or record call with an item
\* that its category already holds appends one more entry with the same id
\* and leaves the entries before it as they were, while every exists
\* answer for the item and the generator's decision on it stay the same.
C17_NoDedup ==
  [][\A i \in Inst :
       (/\ last'.op \in {"done", "endpoint"} /\ last'.inst = i
        /\ last'.item \notin Empties
        /\ \A c \in Written(last') : InCategory(output_data[i], c, last'.item))
       =>
          LET old == output_data[i]
              new == output_data'[i]
              x   == last'.item
          IN  /\ \A c \in Written(last') :
                    /\ Len(IdsOf(new, c)) = Len(IdsOf(old, c)) + 1
                    /\ IsPrefix(EntriesOf(old, c), EntriesOf(new, c))
                    /\ IdsOf(new, c)[Len(IdsOf(new, c))] = PyStr(get_item_id(x))
                    /\ Cardinality({n \in 1..Len(IdsOf(new, c)) :
                                      IdsOf(new, c)[n] = PyStr(get_item_id(x))}) >= 2
              /\ \A k \in {Omitted, Custom, PyStr("dones"),
                            PyList(<<Custom, PyStr("dones")>>)} :
                    check_result(new, x, k)[1] = check_result(old, x, k)[1]
              /\ scan(<<x>>, 1, new, 0, 0) = scan(<<x>>, 1, old, 0, 0)
    ]_vars

\* C17's case: mark_done was called twice with the same item, and `dones`
\* holds two entries with its id.
C17_Witness ==
  /\ last.op = "done" /\ last.item = ItemA /\ last.ret = "none"
  /\ IdsOf(output_data[1], "dones")
       = <<PyStr(get_item_id(ItemA)), PyStr(get_item_id(ItemA))>>

\* The entries of the store the file holds that store mem does not hold.
Unknown(f, mem) ==
  LET onfile == load_output_data(f)
  IN  {<<c, n>> \in KeySet(onfile) \X (1..MaxEntries + 1) :
         /\ n <= Len(EntriesOf(onfile, c))
         /\ EntriesOf(onfile, c)[n] \notin Range(EntriesOf(mem, c))}

\* C18: two instances on one file do not merge. Every write replaces the
\* file with the store of the writer, so the entries the other instance
\* wrote after the writer loaded are no longer in the file, and an item
\* only they marked done is not in `dones` for an instance loaded after:
\* its generator yields the item.
C18_LastWriterWins ==
  [][\A i \in Inst :
       (/\ last'.op \in {"done", "endpoint"} /\ last'.inst = i
        /\ last'.ret = "none" /\ last'.item \notin Empties) =>
          /\ file' = JsonFile(json_dump(output_data'[i]))
          /\ load_output_data(file') = output_data'[i]
          /\ Unknown(file', output_data'[i]) = {}
          /\ \A x \in {ItemA, ItemAB} :
                ~InCategory(output_data'[i], "dones", x) =>
                   scan(<<x>>, 1, load_output_data(file'), 0, 0).kind = "yield"
    ]_vars

\* C18's case: an item that instance 2 marked done, its call returning, has
\* been yielded by a later run of instance 1, because instance 1 wrote its
\* own store over the file in between.
C18_Witness ==
  /\ Yielded /\ last.inst = 1
  /\ get_item_id(last.item) \in run.marked
  /\ InCategory(output_data[2], "dones", last.item)
  /\ ~InCategory(load_output_data(file), "dones", last.item)
  /\ gen[1].dones0 = 1

\* C19: the counters of the generator. At every yield, processed is the
\* number of items yielded so far and processed + skipped is the number of
\* elements looked at, the one just yielded included; when the list is
\* exhausted, processed + skipped = total = the length of the list.
C19_Counters ==
  \A i \in Inst :
     /\ gen[i].pc = "suspended" =>
           /\ gen[i].processed = gen[i].yields
           /\ gen[i].processed + gen[i].skipped = gen[i].index
           /\ gen[i].index <= Len(gen[i].data)
           /\ gen[i].total = Len(gen[i].data)
     /\ Exhausted(i) =>
           /\ gen[i].processed = gen[i].yields
           /\ gen[i].processed + gen[i].skipped = gen[i].total
           /\ gen[i].total = Len(gen[i].data)
           /\ ListInput /\ gen[i].data = Payload(json_load(input.doc))

\* C19's case: a generator is suspended at the second element of its list,
\* having skipped the first.
C19_Witness ==
  /\ gen[1].pc = "suspended"
  /\ gen[1].index = 2 /\ gen[1].skipped = 1 /\ gen[1].processed = 1
  /\ ~Truthy(gen[1].data[1])

\* A record or mark_done call with a non-empty item has just raised on
\* instance i because its write failed.
WriteFailed(i) ==
  /\ last'.op \in {"done", "endpoint"} /\ last'.inst = i
  /\ last'.ret = "raised" /\ last'.item \notin Empties
  /\ Tag(output_data[i]) = "dict" /\ "dones" \in KeySet(output_data[i])

\* After the call the in-memory store of instance i holds one entry more
\* for the item in every category written, exists reports the item there,
\* and the file holds fewer entries than memory in those categories.
InMemoryOnly(i) ==
  LET old == output_data[i]
      new == output_data'[i]
      x   == last'.item
  IN  \A c \in Written(last') :
         /\ Len(EntriesOf(new, c)) = Len(EntriesOf(old, c)) + 1
         /\ IsPrefix(EntriesOf(old, c), EntriesOf(new, c))
         /\ DictGet(LastOf(new, c), "item") = x
         /\ check_result(new, x, PyStr(c))[1] = "true"
         /\ Len(EntriesOf(load_output_data(file'), c)) < Len(EntriesOf(new, c))

\* C20, as claimed: after a failed write the entry is in memory only, the
\* generator of the same instance skips the item, and the generator of a
\* new instance loaded from the file does not skip it.
C20_Original ==
  [][\A i \in Inst :
       WriteFailed(i) =>
         /\ InMemoryOnly(i)
         /\ scan(<<last'.item>>, 1, output_data'[i], 0, 0).kind = "exhausted"
         /\ scan(<<last'.item>>, 1, load_output_data(file'), 0, 0).kind = "yield"
    ]_vars

\* C20, amended: after a failed write the entry is in memory only and
\* exists reports the item under the categories written; the generator of
\* the same instance skips the item when the call was mark_done (or a
\* record that names `dones`), and otherwise only if `dones` held the item
\* before; the generator of a new instance loaded from the file does not
\* skip the item unless the file held it in `dones` before the call.
C20_MemoryFirst ==
  [][\A i \in Inst :
       WriteFailed(i) =>
         LET x      == last'.item
             onfile == load_output_data(file)
             after  == load_output_data(file')
         IN  /\ InMemoryOnly(i)
             /\ "dones" \in Written(last') =>
                   scan(<<x>>, 1, output_data'[i], 0, 0).kind = "exhausted"
             /\ "dones" \notin Written(last') =>
                   scan(<<x>>, 1, output_data'[i], 0, 0)
                     = scan(<<x>>, 1, output_data[i], 0, 0)
             /\ ~InCategory(onfile, "dones", x) =>
                   scan(<<x>>, 1, after, 0, 0).kind = "yield"
             /\ scan(<<x>>, 1, after, 0, 0).kind = "exhausted" =>
                   InCategory(onfile, "dones", x)
    ]_vars

\* C20's case: mark_done has raised on a failed write; the item is in
\* `dones` in memory and exists reports it, the file does not hold it.
C20_Witness ==
  /\ last.op = "done" /\ last.ret = "raised" /\ last.item = ItemA
  /\ InCategory(output_data[1], "dones", ItemA)
  /\ ~InCategory(load_output_data(file), "dones", ItemA)
  /\ file.kind = "json"

====
